---- MODULE Spec2Model ----
(***************************************************************************)
(* The report pipeline of vr-flask-login-rtm-automation: the Renderer      *)
(* (scripts/generate_report.py), the Wiki Publisher                        *)
(* (scripts/publish_report_confluence.py), the Test-Management Publisher   *)
(* (scripts/rtm_upload_results.py), the Attachment Publisher               *)
(* (scripts/rtm_attach_reports.py) and the Notifier                        *)
(* (scripts/send_report_email.py).  The stages are independent processes   *)
(* that run to completion one at a time and hand over through files.       *)
(*                                                                         *)
(* Text is a sequence of atoms.  An atom is one character where the code   *)
(* looks at characters (digits, sign, blank, newline, "/", ";", ",") and   *)
(* an opaque run of other characters elsewhere ("RT-1", "https://jira").   *)
(***************************************************************************)
EXTENDS Integers, Sequences, FiniteSets, TLC

VARIABLES
    versionFile,   \* report/version.txt
    reportFiles,   \* the artifact paths that exist under report/
    confUrlFile,   \* report/confluence_url.txt
    rtmKeyFile,    \* rtm_execution_key.txt
    jiraUrlFile,   \* report/jira_url.txt (no script writes it)
    junitFile,     \* report/junit.xml, as pytest left it
    pytestLog,     \* report/pytest_output.txt, as pytest left it
    env,           \* the configuration values (environment, command line)
    stage,         \* the script that is running, or that ran last
    pc,            \* its position
    loc,           \* its local variables
    net,           \* the remote calls it has made, in order, with their outcome
    history        \* the calls of get_next_version so far: the file each found, the
                   \* version it returned, the file it left, the artifacts named with it

vars == <<versionFile, reportFiles, confUrlFile, rtmKeyFile, jiraUrlFile, junitFile, pytestLog, env, stage, pc, loc, net, history>>

\* A text file: whether it exists, and its text
Absent == [exists |-> FALSE, text |-> <<>>]
File(text) == [exists |-> TRUE, text |-> text]

\* Python's None where a text is expected (an unset environment value, a
\* missing JSON field, a local variable not yet assigned)
None == <<"(None)">>

----------------------------------------------------------------------------
(* Bounds of the model *)

MaxRenders == 3          \* runs of the Renderer in one behaviour
MaxCases == 2            \* test-case nodes in junit.xml
MaxCount == 2            \* the largest count a pytest log line carries
MaxPolls == 2            \* IMPORTING answers before the import leaves that state
MaxRequests == 3         \* requests a client sends to the login application

----------------------------------------------------------------------------
(* Text *)

Digits == <<"0", "1", "2", "3", "4", "5", "6", "7", "8", "9">>

IsDigit(c) == \E i \in 1..10 : Digits[i] = c

DigitVal(c) == (CHOOSE i \in 1..10 : Digits[i] = c) - 1

\* str.strip() with no argument removes leading and trailing whitespace
Whitespace == {" ", "\n"}

RECURSIVE lstrip(_, _)
lstrip(s, chars) ==
    IF s # <<>> /\ Head(s) \in chars THEN lstrip(Tail(s), chars) ELSE s

RECURSIVE rstrip(_, _)
rstrip(s, chars) ==
    IF s # <<>> /\ s[Len(s)] \in chars THEN rstrip(SubSeq(s, 1, Len(s) - 1), chars) ELSE s

strip(s) == rstrip(lstrip(s, Whitespace), Whitespace)

RECURSIVE DigitsValue(_)
DigitsValue(s) ==
    IF s = <<>> THEN 0
    ELSE 10 * DigitsValue(SubSeq(s, 1, Len(s) - 1)) + DigitVal(s[Len(s)])

AllDigits(s) == s # <<>> /\ \A i \in 1..Len(s) : IsDigit(s[i])

\* int(text): surrounding whitespace is ignored, one optional sign, then
\* decimal digits; anything else raises ValueError (ok = FALSE)
int(s) ==
    LET t == strip(s)
        signed == t # <<>> /\ Head(t) \in {"-", "+"}
        body == IF signed THEN Tail(t) ELSE t
    IN  IF AllDigits(body)
        THEN [ok |-> TRUE,
              val |-> IF signed /\ Head(t) = "-" THEN 0 - DigitsValue(body) ELSE DigitsValue(body)]
        ELSE [ok |-> FALSE, val |-> 0]

RECURSIVE NatStr(_)
NatStr(n) ==
    IF n < 10 THEN <<Digits[n + 1]>> ELSE NatStr(n \div 10) \o <<Digits[(n % 10) + 1]>>

\* str(n) of an integer
str(n) == IF n < 0 THEN <<"-">> \o NatStr(0 - n) ELSE NatStr(n)

----------------------------------------------------------------------------
(* scripts/generate_report.py *)

OUTPUT_DIR == <<"report">>
BASE_NAME == <<"test_result_report">>

\* os.path.join(OUTPUT_DIR, f"{BASE_NAME}_v{version}.<ext>")
render_path(version, ext) ==
    OUTPUT_DIR \o <<"/">> \o BASE_NAME \o <<"_v">> \o str(version) \o <<".", ext>>

\* the mutant of get_next_version: the counter is written back without the increment
get_next_version_stale(file) ==
    LET read == IF ~file.exists THEN [ok |-> FALSE, val |-> 0] ELSE int(file.text)
        version == IF read.ok THEN read.val ELSE 0
    IN  [version |-> version + 1, file |-> File(str(version))]

\* the mutant of get_next_version: unreadable content keeps the counter at 1
get_next_version_sticky(file) ==
    LET read == IF ~file.exists THEN [ok |-> FALSE, val |-> 0] ELSE int(file.text)
        version == IF read.ok THEN read.val + 1 ELSE 2
    IN  [version |-> version, file |-> File(str(version))]

\* get_next_version(): the version it returns and the text it leaves in the file
get_next_version(file) ==
    LET read == IF ~file.exists THEN [ok |-> FALSE, val |-> 0] ELSE int(file.text)
        version == (IF read.ok THEN read.val ELSE 0) + 1
    IN  [version |-> version, file |-> File(str(version))]

----------------------------------------------------------------------------
(* Processes.  A script runs from its first step to an exit; the next      *)
(* script is started by the build pipeline once the previous one has       *)
(* exited.  Exit status: "zero" for a normal end, "nonzero" for            *)
(* SystemExit with a message, sys.exit(1) or an uncaught exception.        *)

Finished == pc \in {"idle", "exited"}

Exit(code, why) ==
    /\ pc' = "exited"
    /\ loc' = [loc EXCEPT !.exit = code, !.why = why]

\* the files the scripts write, and what they are given
Files == <<versionFile, reportFiles, confUrlFile, rtmKeyFile>>
Inputs == <<jiraUrlFile, junitFile, pytestLog, env>>

----------------------------------------------------------------------------
(* Renderer: generate_report.py, enhance_html_report() *)

RenderLocals == [exit |-> "running", why |-> "", version |-> None, html_out |-> None, pdf_file |-> None]

\* the build pipeline starts the script
RenderStart ==
    /\ Finished
    /\ Len(history) < MaxRenders
    /\ stage' = "render" /\ pc' = "check_input"
    /\ loc' = RenderLocals /\ net' = <<>>
    /\ UNCHANGED <<Files, Inputs, history>>

\* if not os.path.exists(INPUT_REPORT): raise SystemExit
RenderCheckInput ==
    /\ stage = "render" /\ pc = "check_input"
    /\ \E input_exists \in BOOLEAN :
          IF input_exists
          THEN pc' = "allocate" /\ loc' = loc
          ELSE Exit("nonzero", "input_report_missing")
    /\ UNCHANGED <<Files, Inputs, stage, net, history>>

\* version = get_next_version()
RenderAllocate ==
    /\ stage = "render" /\ pc = "allocate"
    /\ LET r == get_next_version(versionFile)
       IN  /\ versionFile' = r.file
           /\ loc' = [loc EXCEPT !.version = r.version]
           /\ history' = Append(history, [found |-> versionFile, version |-> r.version,
                                           left |-> r.file, html |-> None, pdf |-> None])
    /\ pc' = "write_html"
    /\ UNCHANGED <<reportFiles, confUrlFile, rtmKeyFile, Inputs, stage, net>>

\* the annotated HTML is written to <BASE_NAME>_v<version>.html
RenderWriteHtml ==
    /\ stage = "render" /\ pc = "write_html"
    /\ LET html_out == render_path(loc.version, "html")
       IN  /\ reportFiles' = reportFiles \cup {html_out}
           /\ loc' = [loc EXCEPT !.html_out = html_out]
           /\ history' = [history EXCEPT ![Len(history)].html = html_out]
    /\ pc' = "write_pdf"
    /\ UNCHANGED <<versionFile, confUrlFile, rtmKeyFile, Inputs, stage, net>>

\* the mutant of RenderWritePdf: the PDF is named with a version of its own
RenderWritePdf_reallocating ==
    /\ stage = "render" /\ pc = "write_pdf"
    /\ LET r == get_next_version(versionFile)
           pdf_file == render_path(r.version, "pdf")
       IN  /\ versionFile' = r.file
           /\ reportFiles' = reportFiles \cup {pdf_file}
           /\ loc' = [loc EXCEPT !.pdf_file = pdf_file, !.exit = "zero", !.why = "completed"]
           /\ history' = Append(history, [found |-> versionFile, version |-> r.version,
                                           left |-> r.file, html |-> None, pdf |-> pdf_file])
    /\ pc' = "exited"
    /\ UNCHANGED <<confUrlFile, rtmKeyFile, Inputs, stage, net>>

\* generate_pdf_report(version, ...) builds <BASE_NAME>_v<version>.pdf; the script ends
RenderWritePdf ==
    /\ stage = "render" /\ pc = "write_pdf"
    /\ LET pdf_file == render_path(loc.version, "pdf")
       IN  /\ reportFiles' = reportFiles \cup {pdf_file}
           /\ loc' = [loc EXCEPT !.pdf_file = pdf_file, !.exit = "zero", !.why = "completed"]
           /\ history' = [history EXCEPT ![Len(history)].pdf = pdf_file]
    /\ pc' = "exited"
    /\ UNCHANGED <<versionFile, confUrlFile, rtmKeyFile, Inputs, stage, net>>

----------------------------------------------------------------------------
(* Wiki Publisher: publish_report_confluence.py *)

WIKI_REPORT_DIR == <<"report">>
WIKI_BASE_NAME == <<"test_result_report">>

\* a value that Python's "if not val" takes as missing
Falsy(val) == val = None \/ val = <<>>

\* CONFLUENCE_BASE = os.getenv('CONFLUENCE_BASE', '').rstrip('/')
CONFLUENCE_BASE == IF env.CONFLUENCE_BASE = None THEN <<>> ELSE rstrip(env.CONFLUENCE_BASE, {"/"})

\* validate_env(): the message it exits with, or None
validate_env ==
    IF \/ Falsy(CONFLUENCE_BASE) \/ Falsy(env.CONFLUENCE_USER)
       \/ Falsy(env.CONFLUENCE_TOKEN) \/ Falsy(env.CONFLUENCE_SPACE)
    THEN "missing_environment"
    ELSE IF \E i \in 1..Len(CONFLUENCE_BASE) : CONFLUENCE_BASE[i] = "/rest/api"
         THEN "base_contains_rest_api"
         ELSE ""

\* the mutant of wiki_read_version: the lookup allocates, as get_next_version does
wiki_read_version_allocating(file) ==
    [version |-> get_next_version(file).version, file |-> get_next_version(file).file]

\* the mutant of wiki_read_version: a stale lookup, one behind the counter
wiki_read_version_behind(file) ==
    [version |-> IF file.exists /\ int(file.text).ok THEN int(file.text).val - 1 ELSE 1, file |-> file]

\* read_version() of the publisher: the version it returns and the file as it leaves it
wiki_read_version(file) ==
    [version |-> IF file.exists /\ int(file.text).ok THEN int(file.text).val ELSE 1, file |-> file]

\* os.path.join(REPORT_DIR, f"{BASE_NAME}_v{version}.<ext>")
wiki_path(version, ext) ==
    WIKI_REPORT_DIR \o <<"/">> \o WIKI_BASE_NAME \o <<"_v">> \o str(version) \o <<".", ext>>

\* junit.xml: whether it exists, whether ET.parse accepts it, and its
\* test-case nodes in document order, each given by the set of marker
\* children it has
Markers == {"failure", "error", "skipped"}

NoJunit == [exists |-> FALSE, wellformed |-> TRUE, testcases |-> <<>>]
Malformed == [exists |-> TRUE, wellformed |-> FALSE, testcases |-> <<>>]
Junit(testcases) == [exists |-> TRUE, wellformed |-> TRUE, testcases |-> testcases]

RECURSIVE SeqsUpTo(_, _)
SeqsUpTo(S, n) ==
    IF n = 0 THEN {<<>>}
    ELSE LET shorter == SeqsUpTo(S, n - 1)
         IN  shorter \cup {Append(q, x) : q \in shorter, x \in S}

JunitFiles == {NoJunit, Malformed} \cup {Junit(t) : t \in SeqsUpTo(SUBSET Markers, MaxCases)}

\* the mutant of classify: the error marker is looked at before the failure marker
classify_error_first(testcase) ==
    IF "error" \in testcase THEN "errors"
    ELSE IF "failure" \in testcase THEN "failed"
    ELSE IF "skipped" \in testcase THEN "skipped"
    ELSE "passed"

\* the if/elif chain of extract_junit_summary for one test-case node
classify(testcase) ==
    IF "failure" \in testcase THEN "failed"
    ELSE IF "error" \in testcase THEN "errors"
    ELSE IF "skipped" \in testcase THEN "skipped"
    ELSE "passed"

ZeroCounts == [passed |-> 0, failed |-> 0, errors |-> 0, skipped |-> 0]

RECURSIVE count_testcases(_, _)
count_testcases(nodes, counts) ==
    IF nodes = <<>> THEN counts
    ELSE LET k == classify(Head(nodes))
         IN  count_testcases(Tail(nodes), [counts EXCEPT ![k] = @ + 1])

\* extract_junit_summary(): (passed, failed, errors, skipped)
extract_junit_summary(junit) ==
    IF ~junit.exists THEN ZeroCounts ELSE count_testcases(junit.testcases, ZeroCounts)

Total(c) == c.passed + c.failed + c.errors + c.skipped

\* passed / total * 100, kept exact as the fraction num/den
PassRate(c) ==
    IF Total(c) # 0 THEN [num |-> c.passed * 100, den |-> Total(c)] ELSE [num |-> 0, den |-> 1]

\* the mutant of build_summary: errors do not fail the run
build_summary_ignores_errors(c) ==
    [status |-> IF c.failed = 0 THEN "PASS" ELSE "FAIL", rate |-> PassRate(c)]

\* build_summary(): status and pass rate from the counts
build_summary(c) ==
    [status |-> IF c.failed = 0 /\ c.errors = 0 THEN "PASS" ELSE "FAIL", rate |-> PassRate(c)]

\* what a remote call can end in: a success status, an error status, or the
\* client library raising (connection refused, timeout)
Outcomes == {"ok", "http_error", "exception"}

PageIds == {<<"4711">>}
PageVersions == {1, 2}

WikiLocals ==
    [exit |-> "running", why |-> "", version |-> None, pdf_path |-> None, html_path |-> None,
     counts |-> None, status |-> "", rate |-> None,
     page_id |-> None, current_version |-> None]

WikiStart ==
    /\ Finished
    /\ stage' = "wiki" /\ pc' = "validate_env"
    /\ loc' = WikiLocals /\ net' = <<>>
    /\ UNCHANGED <<Files, Inputs, history>>

\* validate_env()
WikiValidateEnv ==
    /\ stage = "wiki" /\ pc = "validate_env"
    /\ IF validate_env = ""
       THEN pc' = "read_version" /\ loc' = loc
       ELSE Exit("nonzero", validate_env)
    /\ UNCHANGED <<Files, Inputs, stage, net, history>>

\* version = read_version(); the two artifact paths; both must exist
WikiReadVersion ==
    /\ stage = "wiki" /\ pc = "read_version"
    /\ LET r == wiki_read_version(versionFile)
           pdf_path == wiki_path(r.version, "pdf")
           html_path == wiki_path(r.version, "html")
       IN  /\ versionFile' = r.file
           /\ IF pdf_path \in reportFiles /\ html_path \in reportFiles
              THEN /\ pc' = "build_summary"
                   /\ loc' = [loc EXCEPT !.version = r.version, !.pdf_path = pdf_path,
                                         !.html_path = html_path]
              ELSE /\ pc' = "exited"
                   /\ loc' = [loc EXCEPT !.version = r.version, !.pdf_path = pdf_path,
                                         !.html_path = html_path, !.exit = "nonzero",
                                         !.why = "missing_report_files"]
    /\ UNCHANGED <<reportFiles, confUrlFile, rtmKeyFile, Inputs, stage, net, history>>

\* summary, status = build_summary()
WikiBuildSummary ==
    /\ stage = "wiki" /\ pc = "build_summary"
    /\ IF junitFile.exists /\ ~junitFile.wellformed
       THEN Exit("nonzero", "exception")
       ELSE LET c == extract_junit_summary(junitFile)
                b == build_summary(c)
            IN  /\ pc' = "create_page"
                /\ loc' = [loc EXCEPT !.counts = c, !.status = b.status, !.rate = b.rate]
    /\ UNCHANGED <<Files, Inputs, stage, net, history>>

\* the mutant of WikiCreatePage: a refused creation is requested once more
WikiCreatePage_retrying ==
    /\ stage = "wiki" /\ pc = "create_page"
    /\ \E outcome \in Outcomes, id \in PageIds :
          /\ net' = Append(net, [call |-> "create_page", outcome |-> outcome])
          /\ IF outcome = "ok"
             THEN pc' = "upload_pdf" /\ loc' = [loc EXCEPT !.page_id = id]
             ELSE IF net = <<>>
                  THEN pc' = pc /\ loc' = loc
                  ELSE Exit("nonzero", "create_page_failed")
    /\ UNCHANGED <<Files, Inputs, stage, history>>

\* page_id = create_confluence_page(page_title, body): one POST, an error raises
WikiCreatePage ==
    /\ stage = "wiki" /\ pc = "create_page"
    /\ \E outcome \in Outcomes, id \in PageIds :
          /\ net' = Append(net, [call |-> "create_page", outcome |-> outcome])
          /\ IF outcome = "ok"
             THEN pc' = "upload_pdf" /\ loc' = [loc EXCEPT !.page_id = id]
             ELSE Exit("nonzero", "create_page_failed")
    /\ UNCHANGED <<Files, Inputs, stage, history>>

\* the mutant of upload_attachment: a failed POST is tried again
upload_attachment_retrying(file_path, ext, next_pc) ==
    /\ \E outcome \in Outcomes :
          /\ net' = Append(net, [call |-> "upload", file |-> ext, outcome |-> outcome])
          /\ IF outcome = "ok"
             THEN pc' = next_pc /\ loc' = loc
             ELSE IF Len(SelectSeq(net, LAMBDA n : n.call = "upload" /\ n.file = ext)) < 2
                  THEN pc' = pc /\ loc' = loc
                  ELSE Exit("nonzero", "upload_failed")

\* upload_attachment(page_id, file_path): the file must exist; one POST;
\* an error status raises through raise_for_status(), caught by the entry point
upload_attachment(file_path, ext, next_pc) ==
    IF file_path \notin reportFiles
    THEN net' = net /\ Exit("nonzero", "missing_attachment")
    ELSE \E outcome \in Outcomes :
            /\ net' = Append(net, [call |-> "upload", file |-> ext, outcome |-> outcome])
            /\ IF outcome = "ok"
               THEN pc' = next_pc /\ loc' = loc
               ELSE Exit("nonzero", "upload_failed")

\* pdf_name = upload_attachment(page_id, pdf_path)
WikiUploadPdf ==
    /\ stage = "wiki" /\ pc = "upload_pdf"
    /\ upload_attachment(loc.pdf_path, "pdf", "upload_html")
    /\ UNCHANGED <<Files, Inputs, stage, history>>

\* html_name = upload_attachment(page_id, html_path)
WikiUploadHtml ==
    /\ stage = "wiki" /\ pc = "upload_html"
    /\ upload_attachment(loc.html_path, "html", "get_page_version")
    /\ UNCHANGED <<Files, Inputs, stage, history>>

\* current_version = get_page_version(page_id)
WikiGetPageVersion ==
    /\ stage = "wiki" /\ pc = "get_page_version"
    /\ \E outcome \in Outcomes, number \in PageVersions :
          /\ net' = Append(net, [call |-> "get_page_version", outcome |-> outcome])
          /\ IF outcome = "ok"
             THEN pc' = "update_page" /\ loc' = [loc EXCEPT !.current_version = number]
             ELSE Exit("nonzero", "get_page_version_failed")
    /\ UNCHANGED <<Files, Inputs, stage, history>>

\* requests.put(update_url, ...) with version number current_version + 1
WikiUpdatePage ==
    /\ stage = "wiki" /\ pc = "update_page"
    /\ \E outcome \in Outcomes :
          /\ net' = Append(net, [call |-> "update_page", number |-> loc.current_version + 1,
                                 outcome |-> outcome])
          /\ IF outcome = "ok"
             THEN pc' = "save_url" /\ loc' = loc
             ELSE Exit("nonzero", "update_page_failed")
    /\ UNCHANGED <<Files, Inputs, stage, history>>

\* the page URL is written to report/confluence_url.txt; main() returns
WikiSaveUrl ==
    /\ stage = "wiki" /\ pc = "save_url"
    /\ confUrlFile' = File(CONFLUENCE_BASE \o <<"/spaces/">> \o env.CONFLUENCE_SPACE
                             \o <<"/pages/">> \o loc.page_id)
    /\ Exit("zero", "completed")
    /\ UNCHANGED <<versionFile, reportFiles, rtmKeyFile, Inputs, stage, net, history>>

----------------------------------------------------------------------------
(* Notifier: send_report_email.py *)

MAIL_REPORT_DIR == <<"report">>
MAIL_BASE_NAME == <<"test_result_report">>

\* os.getenv(name, ""): an unset value reads as the empty text
GetEnv(val) == IF val = None THEN <<>> ELSE val

\* re.split(r"[;,]", raw): the parts between the delimiters
RECURSIVE split_parts(_, _)
split_parts(raw, part) ==
    IF raw = <<>> THEN <<part>>
    ELSE IF Head(raw) \in {";", ","}
         THEN <<part>> \o split_parts(Tail(raw), <<>>)
         ELSE split_parts(Tail(raw), Append(part, Head(raw)))

RECURSIVE strip_nonempty(_)
strip_nonempty(parts) ==
    IF parts = <<>> THEN <<>>
    ELSE IF strip(Head(parts)) # <<>>
         THEN <<strip(Head(parts))>> \o strip_nonempty(Tail(parts))
         ELSE strip_nonempty(Tail(parts))

\* the mutant of parse_recipients: the parts are kept without being stripped
parse_recipients_unstripped(raw) ==
    IF raw = <<>> THEN <<>> ELSE SelectSeq(split_parts(raw, <<>>), LAMBDA part : part # <<>>)

\* parse_recipients(raw)
parse_recipients(raw) ==
    IF raw = <<>> THEN <<>> ELSE strip_nonempty(split_parts(raw, <<>>))

\* read_confluence_url()
read_confluence_url ==
    IF GetEnv(env.CONFLUENCE_PAGE_URL) # <<>> THEN GetEnv(env.CONFLUENCE_PAGE_URL)
    ELSE IF confUrlFile.exists THEN strip(confUrlFile.text)
    ELSE <<>>

\* read_jira_execution_from_rtm(): JIRA_URL without trailing slashes, "/browse/", the saved key
read_jira_execution_from_rtm ==
    LET jira_base == rstrip(GetEnv(env.JIRA_URL), {"/"})
    IN  IF jira_base = <<>> THEN <<>>
        ELSE IF rtmKeyFile.exists /\ strip(rtmKeyFile.text) # <<>>
             THEN jira_base \o <<"/browse/">> \o strip(rtmKeyFile.text)
             ELSE <<>>

JIRA_EXECUTION_URL_ENV == GetEnv(env.JIRA_EXECUTION_URL)

\* read_jira_url_fallback()
read_jira_url_fallback ==
    IF JIRA_EXECUTION_URL_ENV # <<>> THEN JIRA_EXECUTION_URL_ENV
    ELSE IF jiraUrlFile.exists THEN strip(jiraUrlFile.text)
    ELSE <<>>

\* Python's "a or b" on texts
Or(a, b) == IF a # <<>> THEN a ELSE b

\* the mutant of resolve_jira_url: the environment value is asked before the saved key
resolve_jira_url_override_first ==
    Or(JIRA_EXECUTION_URL_ENV, Or(read_jira_execution_from_rtm, read_jira_url_fallback))

\* main(): jira_url = read_jira_execution_from_rtm() or JIRA_EXECUTION_URL_ENV
\*                    or read_jira_url_fallback()
resolve_jira_url ==
    Or(read_jira_execution_from_rtm, Or(JIRA_EXECUTION_URL_ENV, read_jira_url_fallback))

\* read_version() of the notifier: the version it returns and the file as it leaves it
mail_read_version(file) ==
    [version |-> IF file.exists /\ int(file.text).ok THEN int(file.text).val ELSE 1, file |-> file]

\* os.path.join(REPORT_DIR, f"{BASE_NAME}_v{version}.pdf")
mail_pdf_path(version) ==
    MAIL_REPORT_DIR \o <<"/">> \o MAIL_BASE_NAME \o <<"_v">> \o str(version) \o <<".", "pdf">>

\* report/pytest_output.txt: whether it exists, and what the four searches
\* find in it: for each pattern <<n>>, the number of its first match, or <<>>
\* when it matches nowhere
Matches == {<<>>} \cup {<<n>> : n \in 0..MaxCount}

NoLog == [exists |-> FALSE, passed |-> <<>>, failed |-> <<>>, errors |-> <<>>, skipped |-> <<>>]

PytestLogs ==
    {NoLog} \cup [exists : {TRUE}, passed : Matches, failed : Matches,
                  errors : Matches, skipped : Matches]

\* int(m.group(1)) if the search matched, else the initial 0
Found(m) == IF m = <<>> THEN 0 ELSE m[1]

\* the mutant of extract_test_status: the pass rate leaves the skipped tests out
extract_test_status_rate_without_skipped(log) ==
    IF ~log.exists
    THEN [status |-> "UNKNOWN", summary |-> "no_pytest_output_found", counts |-> None, rate |-> None]
    ELSE LET c == [passed |-> Found(log.passed), failed |-> Found(log.failed),
                   errors |-> Found(log.errors), skipped |-> Found(log.skipped)]
         IN  [status |-> IF c.failed = 0 /\ c.errors = 0 THEN "PASS" ELSE "FAIL",
              summary |-> "counts_and_pass_rate",
              counts |-> c,
              rate |-> PassRate([c EXCEPT !.skipped = 0])]

\* the mutant of extract_test_status: a missing log is read as an empty one
extract_test_status_zero_when_missing(log) ==
    LET c == IF log.exists
             THEN [passed |-> Found(log.passed), failed |-> Found(log.failed),
                   errors |-> Found(log.errors), skipped |-> Found(log.skipped)]
             ELSE ZeroCounts
    IN  [status |-> IF c.failed = 0 /\ c.errors = 0 THEN "PASS" ELSE "FAIL",
         summary |-> "counts_and_pass_rate",
         counts |-> c,
         rate |-> PassRate(c)]

\* extract_test_status(): the status, which of its two summary texts it
\* returns ("No pytest_output.txt found.", or the line with the counts and
\* the pass rate), and the counts and rate that line carries
extract_test_status(log) ==
    IF ~log.exists
    THEN [status |-> "UNKNOWN", summary |-> "no_pytest_output_found", counts |-> None, rate |-> None]
    ELSE LET c == [passed |-> Found(log.passed), failed |-> Found(log.failed),
                   errors |-> Found(log.errors), skipped |-> Found(log.skipped)]
         IN  [status |-> IF c.failed = 0 /\ c.errors = 0 THEN "PASS" ELSE "FAIL",
              summary |-> "counts_and_pass_rate",
              counts |-> c,
              rate |-> IF Total(c) # 0 THEN [num |-> c.passed * 100, den |-> Total(c)]
                       ELSE [num |-> 0, den |-> 1]]

MailLocals ==
    [exit |-> "running", why |-> "", version |-> None, pdf_report_path |-> None,
     status |-> "", summary |-> "", counts |-> None, rate |-> None,
     confluence_url |-> None, jira_url |-> None,
     to_list |-> None, cc_list |-> None, bcc_list |-> None, msg |-> None,
     esmtp_auth |-> ""]

MailStart ==
    /\ Finished
    /\ stage' = "mail" /\ pc' = "read_version"
    /\ loc' = MailLocals /\ net' = <<>>
    /\ UNCHANGED <<Files, Inputs, history>>

\* version = read_version(); the PDF of that version must exist
MailReadVersion ==
    /\ stage = "mail" /\ pc = "read_version"
    /\ LET r == mail_read_version(versionFile)
           pdf_report_path == mail_pdf_path(r.version)
       IN  /\ versionFile' = r.file
           /\ IF pdf_report_path \in reportFiles
              THEN /\ pc' = "extract_test_status"
                   /\ loc' = [loc EXCEPT !.version = r.version,
                                         !.pdf_report_path = pdf_report_path]
              ELSE /\ pc' = "exited"
                   /\ loc' = [loc EXCEPT !.version = r.version,
                                         !.pdf_report_path = pdf_report_path,
                                         !.exit = "nonzero", !.why = "pdf_not_found"]
    /\ UNCHANGED <<reportFiles, confUrlFile, rtmKeyFile, Inputs, stage, net, history>>

\* status, summary = extract_test_status()
MailExtractTestStatus ==
    /\ stage = "mail" /\ pc = "extract_test_status"
    /\ LET r == extract_test_status(pytestLog)
       IN  loc' = [loc EXCEPT !.status = r.status, !.summary = r.summary,
                              !.counts = r.counts, !.rate = r.rate]
    /\ pc' = "resolve_links"
    /\ UNCHANGED <<Files, Inputs, stage, net, history>>

\* confluence_url = read_confluence_url(); jira_url = ... or ... or ...
MailResolveLinks ==
    /\ stage = "mail" /\ pc = "resolve_links"
    /\ loc' = [loc EXCEPT !.confluence_url = read_confluence_url,
                          !.jira_url = resolve_jira_url]
    /\ pc' = "parse_recipients"
    /\ UNCHANGED <<Files, Inputs, stage, net, history>>

\* the three recipient lists; an empty to_list raises SystemExit
MailParseRecipients ==
    /\ stage = "mail" /\ pc = "parse_recipients"
    /\ LET to_list == parse_recipients(GetEnv(env.REPORT_TO))
           cc_list == parse_recipients(GetEnv(env.REPORT_CC))
           bcc_list == parse_recipients(GetEnv(env.REPORT_BCC))
       IN  IF to_list = <<>>
           THEN /\ pc' = "exited"
                /\ loc' = [loc EXCEPT !.to_list = to_list, !.cc_list = cc_list,
                                      !.bcc_list = bcc_list,
                                      !.exit = "nonzero", !.why = "report_to_empty"]
           ELSE /\ pc' = "connect"
                /\ loc' = [loc EXCEPT !.to_list = to_list, !.cc_list = cc_list,
                                      !.bcc_list = bcc_list]
    /\ UNCHANGED <<Files, Inputs, stage, net, history>>

\* the mutant of Section: without a link the section is left out of the mail
Section_left_out(url) == IF url # <<>> THEN [link |-> url] ELSE [left_out |-> "no section"]

\* the link of a section of the mail, or its placeholder
Section(url) == IF url # <<>> THEN [link |-> url] ELSE [placeholder |-> "not available"]

\* send_single_email_all(): the message is built, the PDF attached, and the
\* SMTP connection opened (smtplib.SMTP(...), ehlo)
MailConnect ==
    /\ stage = "mail" /\ pc = "connect"
    /\ \E outcome \in {"ok", "exception"} :
          /\ net' = Append(net, [call |-> "smtp_connect", outcome |-> outcome])
          /\ loc' = [loc EXCEPT
                        !.msg = [summary |-> [text |-> loc.summary, counts |-> loc.counts,
                                              rate |-> loc.rate],
                                 subject |-> <<IF loc.status = "PASS" THEN "(ok)" ELSE "(x)",
                                               "Test Result", loc.status, "(v">>
                                             \o str(loc.version) \o <<")">>,
                                 confluence |-> Section(loc.confluence_url),
                                 jira |-> Section(loc.jira_url),
                                 attachment |-> loc.pdf_report_path,
                                 to_addrs |-> loc.to_list \o loc.cc_list \o loc.bcc_list],
                        !.exit = IF outcome = "ok" THEN "running" ELSE "nonzero",
                        !.why = IF outcome = "ok" THEN "" ELSE "exception"]
          /\ pc' = IF outcome = "ok" THEN "starttls" ELSE "exited"
    /\ UNCHANGED <<Files, Inputs, stage, history>>

\* the mutant of MailStartTls: an error of starttls() ends the script
MailStartTls_fatal ==
    /\ stage = "mail" /\ pc = "starttls"
    /\ IF env.SMTP_PORT = 587
       THEN \E outcome \in {"ok", "exception"} :
               /\ net' = Append(net, [call |-> "starttls", outcome |-> outcome])
               /\ IF outcome = "ok" THEN pc' = "auth" /\ loc' = loc
                  ELSE Exit("nonzero", "exception")
       ELSE net' = net /\ pc' = "auth" /\ loc' = loc
    /\ UNCHANGED <<Files, Inputs, stage, history>>

\* if SMTP_PORT == 587: try s.starttls(); s.ehlo(); an error is only printed
MailStartTls ==
    /\ stage = "mail" /\ pc = "starttls"
    /\ IF env.SMTP_PORT = 587
       THEN \E outcome \in {"ok", "exception"} :
               net' = Append(net, [call |-> "starttls", outcome |-> outcome])
       ELSE net' = net
    /\ pc' = "auth"
    /\ UNCHANGED <<Files, Inputs, stage, loc, history>>

\* if SMTP_USER and SMTP_PASS: "auth" in s.esmtp_features is looked up, and
\* s.login() called when the server advertises it; an error is only printed
MailAuth ==
    /\ stage = "mail" /\ pc = "auth"
    /\ IF ~Falsy(env.SMTP_USER) /\ ~Falsy(env.SMTP_PASS)
       THEN \E auth_advertised \in BOOLEAN, outcome \in {"ok", "exception"} :
               /\ auth_advertised \/ outcome = "ok"
               /\ net' = IF auth_advertised
                         THEN Append(net, [call |-> "login", outcome |-> outcome])
                         ELSE net
               /\ loc' = [loc EXCEPT !.esmtp_auth =
                                        IF auth_advertised THEN "advertised" ELSE "not advertised"]
       ELSE net' = net /\ loc' = loc
    /\ pc' = "send_message"
    /\ UNCHANGED <<Files, Inputs, stage, history>>

\* s.send_message(msg, to_addrs=all_recipients); the script ends
MailSendMessage ==
    /\ stage = "mail" /\ pc = "send_message"
    /\ \E outcome \in {"ok", "exception"} :
          /\ net' = Append(net, [call |-> "send_message", outcome |-> outcome])
          /\ IF outcome = "ok" THEN Exit("zero", "completed") ELSE Exit("nonzero", "exception")
    /\ UNCHANGED <<Files, Inputs, stage, history>>

----------------------------------------------------------------------------
(* Test-Management Publisher: rtm_upload_results.py, main() *)

\* what requests returns: the call raised, or a response with a status code
Responses(codes) == [raised : {FALSE}, status : codes] \cup {[raised |-> TRUE, status |-> 0]}

ImportCodes == {200, 201, 202, 400, 500}
TaskIds == {<<"task-1">>}

\* the JSON of the status endpoint: "status" and "testExecutionKey" (None when not there)
ImportStates == {"IMPORTING", "FINISHED", "FAILED", "null"}
ExecutionKeys == {None, <<>>, <<"RT-7">>}

\* the patch of the folder: success is 200 or 204
FolderCodes == {200, 204, 404}

UploadLocals ==
    [exit |-> "running", why |-> "", task_id |-> None, d |-> None, te_key |-> None]

UploadStart ==
    /\ Finished
    /\ stage' = "rtm_upload" /\ pc' = "check_token"
    /\ loc' = UploadLocals /\ net' = <<>>
    /\ UNCHANGED <<Files, Inputs, history>>

\* token = os.getenv("RTM_API_TOKEN"); if not token: raise SystemExit
UploadCheckToken ==
    /\ stage = "rtm_upload" /\ pc = "check_token"
    /\ IF Falsy(env.RTM_API_TOKEN)
       THEN Exit("nonzero", "missing_rtm_api_token")
       ELSE pc' = "import" /\ loc' = loc
    /\ UNCHANGED <<Files, Inputs, stage, net, history>>

\* the mutant of import_failed: 201 is taken for a success as well
import_failed_201_passes(status) == status \notin {200, 201, 202}

\* if response.status_code not in (200, 202)
import_failed(status) == status \notin {200, 202}

\* the archive is opened and posted to the import endpoint; a status other than
\* 200/202 is printed and main() returns
UploadImport ==
    /\ stage = "rtm_upload" /\ pc = "import"
    /\ \E archive_exists \in BOOLEAN, response \in Responses(ImportCodes), task \in TaskIds :
          IF ~archive_exists
          THEN net' = net /\ Exit("nonzero", "exception")
          ELSE /\ net' = Append(net, [call |-> "import", response |-> response])
               /\ IF response.raised THEN Exit("nonzero", "exception")
                  ELSE IF import_failed(response.status)
                       THEN Exit("zero", "rtm_upload_failed")
                       ELSE pc' = "poll" /\ loc' = [loc EXCEPT !.task_id = task]
    /\ UNCHANGED <<Files, Inputs, stage, history>>

Importing(log) == Len(SelectSeq(log, LAMBDA n : n.call = "import_status" /\ n.status = "IMPORTING"))

\* the mutant of UploadPoll: the key file is opened for writing before the key is looked at
UploadPoll_truncates_key_file ==
    /\ stage = "rtm_upload" /\ pc = "poll"
    /\ \E raised \in BOOLEAN, status \in ImportStates, key \in ExecutionKeys :
          /\ status = "IMPORTING" => Importing(net) < MaxPolls
          /\ raised => status = "null" /\ key = None
          /\ net' = Append(net, [call |-> "import_status", raised |-> raised, status |-> status])
          /\ IF raised
             THEN Exit("nonzero", "exception") /\ rtmKeyFile' = rtmKeyFile
             ELSE IF status = "IMPORTING"
                  THEN /\ pc' = "poll"
                       /\ loc' = [loc EXCEPT !.d = [status |-> status, testExecutionKey |-> key]]
                       /\ rtmKeyFile' = rtmKeyFile
                  ELSE IF Falsy(key)
                       THEN /\ pc' = "exited"
                            /\ loc' = [loc EXCEPT !.d = [status |-> status, testExecutionKey |-> key],
                                                  !.te_key = key, !.exit = "zero",
                                                  !.why = "no_test_execution_key"]
                            /\ rtmKeyFile' = File(<<>>)
                       ELSE /\ rtmKeyFile' = File(key)
                            /\ loc' = [loc EXCEPT !.d = [status |-> status, testExecutionKey |-> key],
                                                  !.te_key = key,
                                                  !.exit = IF Falsy(env.folder_id) THEN "zero" ELSE "running",
                                                  !.why = IF Falsy(env.folder_id) THEN "completed" ELSE ""]
                            /\ pc' = IF Falsy(env.folder_id) THEN "exited" ELSE "folder"
    /\ UNCHANGED <<versionFile, reportFiles, confUrlFile, Inputs, stage, history>>

\* one round of the polling loop: the status is fetched; IMPORTING goes round
\* again, any other status leaves the loop; without a testExecutionKey main()
\* returns, with one the key is written to rtm_execution_key.txt
UploadPoll ==
    /\ stage = "rtm_upload" /\ pc = "poll"
    /\ \E raised \in BOOLEAN, status \in ImportStates, key \in ExecutionKeys :
          /\ status = "IMPORTING" => Importing(net) < MaxPolls
          /\ raised => status = "null" /\ key = None
          /\ net' = Append(net, [call |-> "import_status", raised |-> raised, status |-> status])
          /\ IF raised
             THEN Exit("nonzero", "exception") /\ rtmKeyFile' = rtmKeyFile
             ELSE IF status = "IMPORTING"
                  THEN /\ pc' = "poll"
                       /\ loc' = [loc EXCEPT !.d = [status |-> status, testExecutionKey |-> key]]
                       /\ rtmKeyFile' = rtmKeyFile
                  ELSE IF Falsy(key)
                       THEN /\ pc' = "exited"
                            /\ loc' = [loc EXCEPT !.d = [status |-> status, testExecutionKey |-> key],
                                                  !.te_key = key, !.exit = "zero",
                                                  !.why = "no_test_execution_key"]
                            /\ rtmKeyFile' = rtmKeyFile
                       ELSE /\ rtmKeyFile' = File(key)
                            /\ loc' = [loc EXCEPT !.d = [status |-> status, testExecutionKey |-> key],
                                                  !.te_key = key,
                                                  !.exit = IF Falsy(env.folder_id) THEN "zero" ELSE "running",
                                                  !.why = IF Falsy(env.folder_id) THEN "completed" ELSE ""]
                            /\ pc' = IF Falsy(env.folder_id) THEN "exited" ELSE "folder"
    /\ UNCHANGED <<versionFile, reportFiles, confUrlFile, Inputs, stage, history>>

\* if args.folder_id: the execution is filed under the folder; a refusal is
\* only printed
UploadFolder ==
    /\ stage = "rtm_upload" /\ pc = "folder"
    /\ \E response \in Responses(FolderCodes) :
          /\ net' = Append(net, [call |-> "folder", response |-> response])
          /\ IF response.raised THEN Exit("nonzero", "exception") ELSE Exit("zero", "completed")
    /\ UNCHANGED <<Files, Inputs, stage, history>>

----------------------------------------------------------------------------
(* Attachment Publisher: rtm_attach_reports.py *)

AttachCodes == {200, 201, 500}

\* for attempt in range(1, 4)
Attempts == 3

AttachLocals == [exit |-> "running", why |-> "", file |-> "", attempt |-> None, attached |-> {}]

AttachStart ==
    /\ Finished
    /\ stage' = "rtm_attach" /\ pc' = "check_env"
    /\ loc' = AttachLocals /\ net' = <<>>
    /\ UNCHANGED <<Files, Inputs, history>>

\* JIRA_URL (trailing slashes removed), JIRA_USER and JIRA_API_TOKEN must be set
AttachCheckEnv ==
    /\ stage = "rtm_attach" /\ pc = "check_env"
    /\ IF \/ rstrip(GetEnv(env.JIRA_URL), {"/"}) = <<>>
          \/ Falsy(env.JIRA_USER) \/ Falsy(env.JIRA_API_TOKEN)
       THEN Exit("nonzero", "missing_environment")
       ELSE pc' = "save_key" /\ loc' = loc
    /\ UNCHANGED <<Files, Inputs, stage, net, history>>

\* the mutant of AttachSaveKey: the key file is opened for appending
AttachSaveKey_appending ==
    /\ stage = "rtm_attach" /\ pc = "save_key"
    /\ rtmKeyFile' = File(rtmKeyFile.text \o env.issue_key)
    /\ pc' = "attach_file" /\ loc' = [loc EXCEPT !.file = "pdf"]
    /\ UNCHANGED <<versionFile, reportFiles, confUrlFile, Inputs, stage, net, history>>

\* with open("rtm_execution_key.txt", "w") as f: f.write(issue_key)
AttachSaveKey ==
    /\ stage = "rtm_attach" /\ pc = "save_key"
    /\ rtmKeyFile' = File(env.issue_key)
    /\ pc' = "attach_file" /\ loc' = [loc EXCEPT !.file = "pdf"]
    /\ UNCHANGED <<versionFile, reportFiles, confUrlFile, Inputs, stage, net, history>>

\* attach_file(issue_key, file_path), its first lines: the file must exist
AttachFileBegin ==
    /\ stage = "rtm_attach" /\ pc = "attach_file"
    /\ \E file_exists \in BOOLEAN :
          IF file_exists
          THEN pc' = "attempt" /\ loc' = [loc EXCEPT !.attempt = 1]
          ELSE Exit("nonzero", "file_not_found")
    /\ UNCHANGED <<Files, Inputs, stage, net, history>>

\* the mutant of attach_file_attempt: the loop goes on after a success
attach_file_attempt_no_return(response) ==
    /\ net' = Append(net, [call |-> "attach", file |-> loc.file, attempt |-> loc.attempt,
                           response |-> response])
    /\ IF loc.attempt < Attempts
       THEN pc' = "attempt" /\ loc' = [loc EXCEPT !.attempt = @ + 1]
       ELSE Exit("nonzero", "upload_failed_after_3_attempts")

\* the mutant of attach_file_attempt: the last attempt's failure is let through
attach_file_attempt_lenient(response) ==
    /\ net' = Append(net, [call |-> "attach", file |-> loc.file, attempt |-> loc.attempt,
                           response |-> response])
    /\ IF (~response.raised /\ response.status \in {200, 201}) \/ loc.attempt = Attempts
       THEN IF loc.file = "pdf"
            THEN /\ pc' = "attach_file"
                 /\ loc' = [loc EXCEPT !.file = "html", !.attempt = None, !.attached = @ \cup {"pdf"}]
            ELSE /\ pc' = "exited"
                 /\ loc' = [loc EXCEPT !.attempt = None, !.attached = @ \cup {"html"},
                                       !.exit = "zero", !.why = "completed"]
       ELSE pc' = "attempt" /\ loc' = [loc EXCEPT !.attempt = @ + 1]

\* one round of the loop of attach_file: the POST; 200 or 201 returns (to the
\* next file, or to the end of the script); any other status and any exception
\* goes to the next attempt, and after the last one SystemExit is raised
attach_file_attempt(response) ==
    /\ net' = Append(net, [call |-> "attach", file |-> loc.file, attempt |-> loc.attempt,
                           response |-> response])
    /\ IF ~response.raised /\ response.status \in {200, 201}
       THEN IF loc.file = "pdf"
            THEN /\ pc' = "attach_file"
                 /\ loc' = [loc EXCEPT !.file = "html", !.attempt = None, !.attached = @ \cup {"pdf"}]
            ELSE /\ pc' = "exited"
                 /\ loc' = [loc EXCEPT !.attempt = None, !.attached = @ \cup {"html"},
                                       !.exit = "zero", !.why = "completed"]
       ELSE IF loc.attempt < Attempts
            THEN pc' = "attempt" /\ loc' = [loc EXCEPT !.attempt = @ + 1]
            ELSE Exit("nonzero", "upload_failed_after_3_attempts")

AttachFileAttempt ==
    /\ stage = "rtm_attach" /\ pc = "attempt"
    /\ \E response \in Responses(AttachCodes) : attach_file_attempt(response)
    /\ UNCHANGED <<Files, Inputs, stage, history>>

----------------------------------------------------------------------------
(* Login application: app.py.  One client talks to the application; the    *)
(* session is the client's cookie, held in loc; net is the list of the     *)
(* requests served, each with the session before and after it and the      *)
(* response.                                                               *)

\* os.getenv("APP_USERNAME", "alice"), os.getenv("APP_PASSWORD", "password123")
DEFAULT_USERNAME == IF env.APP_USERNAME = None THEN <<"alice">> ELSE env.APP_USERNAME
DEFAULT_PASSWORD == IF env.APP_PASSWORD = None THEN <<"password123">> ELSE env.APP_PASSWORD

\* werkzeug's salted hash: it stands for its password and for nothing else
generate_password_hash(password) == [hash_of |-> password]
check_password_hash(pw_hash, password) == pw_hash.hash_of = password

\* USERS = {DEFAULT_USERNAME: generate_password_hash(DEFAULT_PASSWORD)}; USERS.get(username)
USERS_get(username) ==
    IF username = DEFAULT_USERNAME THEN <<generate_password_hash(DEFAULT_PASSWORD)>> ELSE <<>>

\* what a form can send in a field
FormUsernames == {<<>>, <<"alice">>, <<"alice", " ">>, <<"bob">>}
FormPasswords == {<<"password123">>, <<" ", "password123", "\n">>, <<"wrongpass">>}

NoSession == [user |-> None, flashes |-> <<>>]

AppLocals == [exit |-> "running", why |-> "", session |-> NoSession]

redirect(target) == [status |-> 302, to |-> target, page |-> "", flashes |-> <<>>]

\* render_template(page): the page gets the flashed messages of the session;
\* login.html displays them, which takes them out of the session
render_template(page, flashes) == [status |-> 200, to |-> "", page |-> page, flashes |-> flashes]

\* one request is served: the response goes out and the cookie is set
Serve(request, session, response) ==
    /\ net' = Append(net, request @@ [before |-> loc.session, after |-> session,
                                       response |-> response])
    /\ loc' = [loc EXCEPT !.session = session]

AppStart ==
    /\ Finished
    /\ stage' = "app" /\ pc' = "serving"
    /\ loc' = AppLocals /\ net' = <<>>
    /\ UNCHANGED <<Files, Inputs, history>>

\* GET /
index ==
    IF ~Falsy(loc.session.user)
    THEN Serve([call |-> "GET /"], loc.session, redirect("dashboard"))
    ELSE Serve([call |-> "GET /"], loc.session, redirect("login"))

\* GET /login
login_get ==
    Serve([call |-> "GET /login"], [loc.session EXCEPT !.flashes = <<>>],
          render_template("login.html", loc.session.flashes))

\* the mutant of login_post: a refused login ends the session that was there
login_post_refusal_clears_session(form_username, form_password) ==
    LET username == strip(form_username)
        password == strip(form_password)
        pw_hash == USERS_get(username)
        request == [call |-> "POST /login", username |-> form_username, password |-> form_password]
    IN  IF pw_hash # <<>> /\ check_password_hash(pw_hash[1], password)
        THEN Serve(request,
                   [user |-> username, flashes |-> Append(loc.session.flashes, "Login successful")],
                   redirect("dashboard"))
        ELSE Serve(request, NoSession,
                   render_template("login.html",
                                   Append(loc.session.flashes, "Invalid username or password")))

\* POST /login
login_post(form_username, form_password) ==
    LET username == strip(form_username)
        password == strip(form_password)
        pw_hash == USERS_get(username)
        request == [call |-> "POST /login", username |-> form_username, password |-> form_password]
    IN  IF pw_hash # <<>> /\ check_password_hash(pw_hash[1], password)
        THEN Serve(request,
                   [user |-> username, flashes |-> Append(loc.session.flashes, "Login successful")],
                   redirect("dashboard"))
        ELSE Serve(request, [loc.session EXCEPT !.flashes = <<>>],
                   render_template("login.html",
                                   Append(loc.session.flashes, "Invalid username or password")))

\* GET /dashboard; dashboard.html may or may not display the flashed messages
dashboard ==
    IF Falsy(loc.session.user)
    THEN Serve([call |-> "GET /dashboard"], loc.session, redirect("login"))
    ELSE \E displays \in BOOLEAN :
            Serve([call |-> "GET /dashboard"],
                  IF displays THEN [loc.session EXCEPT !.flashes = <<>>] ELSE loc.session,
                  render_template("dashboard.html", loc.session.flashes))

\* GET /logout
logout ==
    Serve([call |-> "GET /logout"],
          [user |-> None, flashes |-> <<"Logged out successfully.">>],
          redirect("login"))

Serving == stage = "app" /\ pc = "serving" /\ Len(net) < MaxRequests

AppIndex == Serving /\ index /\ UNCHANGED <<Files, Inputs, stage, pc, history>>

AppLoginGet == Serving /\ login_get /\ UNCHANGED <<Files, Inputs, stage, pc, history>>

AppLoginPost ==
    /\ Serving
    /\ \E form_username \in FormUsernames, form_password \in FormPasswords :
          login_post(form_username, form_password)
    /\ UNCHANGED <<Files, Inputs, stage, pc, history>>

AppDashboard == Serving /\ dashboard /\ UNCHANGED <<Files, Inputs, stage, pc, history>>

AppLogout == Serving /\ logout /\ UNCHANGED <<Files, Inputs, stage, pc, history>>

----------------------------------------------------------------------------
(* Initial states.  Every specification starts with no script running; it  *)
(* differs from the others in the scripts it runs and in which of the      *)
(* files and configuration values it varies.                               *)

EnvDefault ==
    [CONFLUENCE_BASE |-> <<"https://wiki", "/">>, CONFLUENCE_USER |-> <<"bot">>,
     CONFLUENCE_TOKEN |-> <<"secret">>, CONFLUENCE_SPACE |-> <<"QA">>,
     CONFLUENCE_PAGE_URL |-> None,
     JIRA_URL |-> <<"https://jira">>, JIRA_EXECUTION_URL |-> None,
     JIRA_USER |-> <<"bot">>, JIRA_API_TOKEN |-> <<"secret">>,
     REPORT_TO |-> <<"a@x.com">>, REPORT_CC |-> None, REPORT_BCC |-> None,
     SMTP_PORT |-> 587, SMTP_USER |-> <<"mailer">>, SMTP_PASS |-> <<"secret">>,
     RTM_API_TOKEN |-> <<"secret">>, issue_key |-> <<"RT-105">>, folder_id |-> None,
     APP_USERNAME |-> None, APP_PASSWORD |-> None]

Idle ==
    /\ stage = "idle" /\ pc = "idle"
    /\ loc = [exit |-> "running", why |-> ""]
    /\ net = <<>> /\ history = <<>>

\* version.txt as a run can find it: missing, empty, not a number, a number
\* with or without sign, padding and line end
VersionTexts ==
    {<<>>, <<"x">>, <<"1", "x">>, <<"0">>, <<"1">>, <<" ", "3", "\n">>, <<"9">>,
     <<"0", "7">>, <<"-", "2">>, <<"+", "5">>}

VersionFiles == {Absent} \cup {File(t) : t \in VersionTexts}

\* artifacts an earlier build left behind
LeftoverReports ==
    {{}, {render_path(1, "pdf")}, {render_path(1, "pdf"), render_path(1, "html")},
     {render_path(3, "pdf"), render_path(3, "html")}}

DefaultJunit == Junit(<<{}, {"failure"}, {"skipped"}>>)
DefaultLog == [exists |-> TRUE, passed |-> <<2>>, failed |-> <<1>>, errors |-> <<>>, skipped |-> <<>>]

PipelineEnvs ==
    {EnvDefault,
     [EnvDefault EXCEPT !.CONFLUENCE_TOKEN = None],
     [EnvDefault EXCEPT !.CONFLUENCE_BASE = <<"https://wiki", "/rest/api">>],
     [EnvDefault EXCEPT !.REPORT_TO = <<" ", ";">>],
     [EnvDefault EXCEPT !.SMTP_PORT = 25, !.SMTP_USER = None]}

\* the Renderer, the Wiki Publisher and the Notifier over the shared files
Init ==
    /\ Idle
    /\ confUrlFile = Absent /\ rtmKeyFile = Absent /\ jiraUrlFile = Absent
    /\ \/ /\ versionFile \in VersionFiles /\ reportFiles \in LeftoverReports
          /\ junitFile = DefaultJunit /\ pytestLog = DefaultLog /\ env = EnvDefault
       \/ /\ versionFile = Absent /\ reportFiles = {}
          /\ junitFile \in {NoJunit, Malformed, DefaultJunit}
          /\ pytestLog \in {NoLog, DefaultLog}
          /\ env \in PipelineEnvs

Render == RenderStart \/ RenderCheckInput \/ RenderAllocate \/ RenderWriteHtml \/ RenderWritePdf

Wiki ==
    \/ WikiStart \/ WikiValidateEnv \/ WikiReadVersion \/ WikiBuildSummary \/ WikiCreatePage
    \/ WikiUploadPdf \/ WikiUploadHtml \/ WikiGetPageVersion \/ WikiUpdatePage \/ WikiSaveUrl

Mail ==
    \/ MailStart \/ MailReadVersion \/ MailExtractTestStatus \/ MailResolveLinks
    \/ MailParseRecipients \/ MailConnect \/ MailStartTls \/ MailAuth \/ MailSendMessage

Upload == UploadStart \/ UploadCheckToken \/ UploadImport \/ UploadPoll \/ UploadFolder

Attach == AttachStart \/ AttachCheckEnv \/ AttachSaveKey \/ AttachFileBegin \/ AttachFileAttempt

Next == Render \/ Wiki \/ Mail

Spec == Init /\ [][Next]_vars

\* the two summaries, over every junit.xml and every pytest log of the bounds
SummaryEnv == [EnvDefault EXCEPT !.SMTP_PORT = 25, !.SMTP_USER = None]

InitSummary ==
    /\ Idle
    /\ versionFile = File(<<"1">>)
    /\ reportFiles = {render_path(1, "pdf"), render_path(1, "html")}
    /\ confUrlFile = Absent /\ rtmKeyFile = Absent /\ jiraUrlFile = Absent
    /\ env = SummaryEnv
    /\ \/ junitFile \in JunitFiles /\ pytestLog = NoLog
       \/ junitFile = NoJunit /\ pytestLog \in PytestLogs

NextSummary == Wiki \/ Mail

SpecSummary == InitSummary /\ [][NextSummary]_vars

\* the Notifier alone, over its configuration and the reference files
JiraUrls == {None, <<"/">>, <<"https://jira">>, <<"https://jira", "/", "/">>}
ExecutionUrls == {None, <<>>, <<"https://jira/browse/RT-9">>}
RtmKeyFiles == {Absent, File(<<>>), File(<<" ", "\n">>), File(<<"RT-1", "\n">>)}
JiraUrlFiles == {Absent, File(<<>>), File(<<"https://jira/browse/RT-3", "\n">>)}
PageUrls == {None, <<"https://wiki/pages/1">>}
ConfUrlFiles == {Absent, File(<<"\n">>), File(<<"https://wiki/spaces/QA/pages/4711">>)}
RecipientTexts ==
    {None, <<>>, <<" ">>, <<";", ",", " ">>, <<"a@x.com">>,
     <<"a@x.com", ";", " ", "b@x.com", ",", " ", " ">>}

InitMail ==
    /\ Idle
    /\ junitFile = NoJunit
    /\ \/ /\ versionFile = File(<<"1">>) /\ reportFiles = {render_path(1, "pdf")}
          /\ pytestLog = DefaultLog
          /\ confUrlFile = Absent
          /\ rtmKeyFile \in RtmKeyFiles /\ jiraUrlFile \in JiraUrlFiles
          /\ \E j \in JiraUrls, x \in ExecutionUrls :
                env = [EnvDefault EXCEPT !.JIRA_URL = j, !.JIRA_EXECUTION_URL = x]
       \/ /\ versionFile = File(<<"1">>) /\ reportFiles = {render_path(1, "pdf")}
          /\ pytestLog \in {NoLog, DefaultLog}
          /\ confUrlFile \in ConfUrlFiles
          /\ rtmKeyFile = Absent /\ jiraUrlFile = Absent
          /\ \E u \in PageUrls : env = [EnvDefault EXCEPT !.CONFLUENCE_PAGE_URL = u]
       \/ /\ versionFile \in {Absent, File(<<"x">>), File(<<"1">>), File(<<"2">>)}
          /\ reportFiles \in {{}, {render_path(1, "pdf")}, {render_path(2, "pdf")}}
          /\ pytestLog = DefaultLog
          /\ confUrlFile = Absent /\ rtmKeyFile = Absent /\ jiraUrlFile = Absent
          /\ \E to \in RecipientTexts, cc \in {None, <<"c@x.com">>}, bcc \in {None, <<"d@x.com">>} :
                env = [EnvDefault EXCEPT !.REPORT_TO = to, !.REPORT_CC = cc, !.REPORT_BCC = bcc]
       \/ /\ versionFile = File(<<"1">>) /\ reportFiles = {render_path(1, "pdf")}
          /\ pytestLog = DefaultLog
          /\ confUrlFile = Absent /\ rtmKeyFile = Absent /\ jiraUrlFile = Absent
          /\ \E port \in {25, 465, 587}, user \in {None, <<>>, <<"mailer">>},
                pass \in {None, <<"secret">>} :
                env = [EnvDefault EXCEPT !.SMTP_PORT = port, !.SMTP_USER = user, !.SMTP_PASS = pass]

NextMail == Mail

SpecMail == InitMail /\ [][NextMail]_vars

\* the two publishers of the test-management system
InitRtm ==
    /\ Idle
    /\ versionFile = Absent /\ reportFiles = {} /\ confUrlFile = Absent
    /\ jiraUrlFile = Absent /\ junitFile = NoJunit /\ pytestLog = NoLog
    /\ rtmKeyFile \in {Absent, File(<<"RT-1">>)}
    /\ \/ \E token \in {None, <<>>, <<"secret">>}, folder \in {None, <<"12">>} :
             env = [EnvDefault EXCEPT !.RTM_API_TOKEN = token, !.folder_id = folder]
       \/ \E url \in JiraUrls, user \in {None, <<"bot">>}, token \in {None, <<"secret">>} :
             env = [EnvDefault EXCEPT !.JIRA_URL = url, !.JIRA_USER = user, !.JIRA_API_TOKEN = token]

NextRtm == Upload \/ Attach

SpecRtm == InitRtm /\ [][NextRtm]_vars

\* the login application, over the credentials it can be configured with
InitApp ==
    /\ Idle
    /\ versionFile = Absent /\ reportFiles = {} /\ confUrlFile = Absent /\ rtmKeyFile = Absent
    /\ jiraUrlFile = Absent /\ junitFile = NoJunit /\ pytestLog = NoLog
    /\ \E username \in {None, <<>>, <<"bob">>},
          password \in {None, <<" ", "password123", "\n">>} :
          env = [EnvDefault EXCEPT !.APP_USERNAME = username, !.APP_PASSWORD = password]

App == AppStart \/ AppIndex \/ AppLoginGet \/ AppLoginPost \/ AppDashboard \/ AppLogout

NextApp == App

SpecApp == InitApp /\ [][NextApp]_vars

----------------------------------------------------------------------------
(* What the claims speak of *)

Last(q) == q[Len(q)]

\* the Notifier has resolved its links
MailResolved ==
    /\ stage = "mail"
    /\ \/ pc \in {"parse_recipients", "connect", "starttls", "auth", "send_message"}
       \/ pc = "exited" /\ loc.why \in {"report_to_empty", "exception", "completed"}

\* the Notifier has built its message
MailComposed == stage = "mail" /\ net # <<>>

\* the link derived from the saved execution key, and the text of the fallback file
DerivedLink == read_jira_execution_from_rtm
FallbackLink == IF jiraUrlFile.exists THEN strip(jiraUrlFile.text) ELSE <<>>

\* C1 as the specification states it: the Jira link of the mail is the first
\* non-empty of override, derived-from-key, fallback file; with an override and
\* a derived link both present the override is used.
C1_OverrideFirst ==
    MailResolved =>
        /\ loc.jira_url = Or(JIRA_EXECUTION_URL_ENV, Or(DerivedLink, FallbackLink))
        /\ JIRA_EXECUTION_URL_ENV # <<>> /\ DerivedLink # <<>>
              => loc.jira_url = JIRA_EXECUTION_URL_ENV

\* C1, amended: the Jira link of the mail is the first non-empty of
\* derived-from-key, override (JIRA_EXECUTION_URL), fallback file, and empty
\* when all three are; with an override and a derived link both present the
\* derived link is used, and the mail's Jira section carries that link.
C1_DerivedFirst ==
    /\ MailResolved =>
          /\ loc.jira_url = Or(DerivedLink, Or(JIRA_EXECUTION_URL_ENV, FallbackLink))
          /\ JIRA_EXECUTION_URL_ENV # <<>> /\ DerivedLink # <<>> => loc.jira_url = DerivedLink
    /\ MailComposed =>
          loc.msg.jira = Section(Or(DerivedLink, Or(JIRA_EXECUTION_URL_ENV, FallbackLink)))

\* an override and a saved key are both there, they differ, and the mail is built
C1_Witness ==
    /\ MailComposed
    /\ JIRA_EXECUTION_URL_ENV = <<"https://jira/browse/RT-9">>
    /\ DerivedLink = <<"https://jira", "/browse/", "RT-1">>
    /\ loc.msg.jira = [link |-> <<"https://jira", "/browse/", "RT-1">>]

\* the attempts of attach_file for one file, and how an attempt ended
AttachLog(f) == SelectSeq(net, LAMBDA n : n.call = "attach" /\ n.file = f)
Attached(n) == ~n.response.raised /\ n.response.status \in {200, 201}
AttachFatal(f) ==
    /\ pc = "exited" /\ loc.exit = "nonzero"
    /\ loc.why = "upload_failed_after_3_attempts" /\ loc.file = f

\* C2: attach_file makes at most 3 attempts for a file; no attempt follows a
\* success; a success (also one after two failures) returns normally, with no
\* fatal abort for that file; three failures, by status or by exception, end
\* the script with SystemExit, and nothing else ends it that way.
C2_AttachRetry ==
    stage = "rtm_attach" =>
        \A f \in {"pdf", "html"} :
            LET log == AttachLog(f)
                n == Len(log)
            IN  /\ n <= 3
                /\ \A i \in 1..n : log[i].attempt = i
                /\ \A i \in 1..(n - 1) : ~Attached(log[i])
                /\ n > 0 /\ Attached(log[n]) => f \in loc.attached /\ ~AttachFatal(f)
                /\ f \in loc.attached => n > 0 /\ Attached(log[n])
                /\ n = 3 /\ ~Attached(log[3]) => AttachFatal(f)
                /\ AttachFatal(f) => n = 3 /\ ~Attached(log[3])

\* the PDF failed twice, once by status and once by exception, and went through
\* on the third attempt
C2_Witness ==
    /\ stage = "rtm_attach" /\ "pdf" \in loc.attached /\ pc = "attach_file"
    /\ Len(AttachLog("pdf")) = 3
    /\ AttachLog("pdf")[1].response = [raised |-> FALSE, status |-> 500]
    /\ AttachLog("pdf")[2].response.raised
    /\ AttachLog("pdf")[3].response = [raised |-> FALSE, status |-> 201]

\* the uploads of the Wiki Publisher for one artifact
UploadLog(f) == SelectSeq(net, LAMBDA n : n.call = "upload" /\ n.file = f)
UploadAborted == stage = "wiki" /\ pc = "exited" /\ loc.why = "upload_failed"

ImportRefused ==
    /\ net # <<>> /\ net[1].call = "import"
    /\ ~net[1].response.raised /\ import_failed(net[1].response.status)

\* C4: without RTM_API_TOKEN, and after an import answer other than 200/202,
\* the stage ends as a fatal error (non-zero exit); the status endpoint is not
\* polled and no execution key is taken or written.
C4_ImportFailureFatal ==
    stage = "rtm_upload" /\ pc = "exited" /\ (Falsy(env.RTM_API_TOKEN) \/ ImportRefused) =>
        /\ loc.exit = "nonzero"
        /\ \A i \in 1..Len(net) : net[i].call # "import_status"
        /\ loc.te_key = None

\* the value a counter file stands for: its integer, or 0 when the file is
\* missing or does not read as one
Persisted(file) == IF file.exists /\ int(file.text).ok THEN int(file.text).val ELSE 0

\* C5: every call of get_next_version returns the value persisted before it
\* plus 1 and leaves exactly that number in the file, which is what the next
\* call finds; so the returned versions increase by 1 from call to call, none
\* is reused and none is lower than an earlier one.
C5_Monotonic ==
    /\ \A i \in 1..Len(history) :
          /\ history[i].version = Persisted(history[i].found) + 1
          /\ history[i].left = File(str(history[i].version))
          /\ Persisted(history[i].left) = history[i].version
          /\ i > 1 => history[i].found = history[i - 1].left
    /\ \A i, j \in 1..Len(history) : i < j => history[i].version < history[j].version
    /\ history # <<>> => versionFile = Last(history).left

\* three calls in a row that carry the counter from one digit to two
C5_Witness ==
    /\ Len(history) = 3
    /\ history[1].found = File(<<"9">>)
    /\ history[1].version = 10 /\ history[2].version = 11 /\ history[3].version = 12
    /\ versionFile = File(<<"1", "2">>)

\* the texts of VersionTexts that are no integer
CorruptTexts == {<<>>, <<"x">>, <<"1", "x">>}

\* C6: from no counter file the n-th call of get_next_version returns n and
\* leaves n in the file; a counter file whose content is no integer is handled
\* as a missing one: the next call returns 1 and leaves 1.
C6_CountsFromOne ==
    history # <<>> =>
        /\ ~history[1].found.exists =>
              \A n \in 1..Len(history) :
                  history[n].version = n /\ history[n].left = File(str(n))
        /\ history[1].found.exists /\ history[1].found.text \in CorruptTexts =>
              /\ history[1].version = 1 /\ history[1].left = File(<<"1">>)
              /\ \A n \in 1..Len(history) : history[n].version = n

\* the third call after a start without a counter file
C6_Witness ==
    /\ Len(history) = 3 /\ ~history[1].found.exists
    /\ history[3].version = 3 /\ versionFile = File(<<"3">>)

\* C7: no step of the Wiki Publisher or of the Notifier, read_version
\* included, creates, changes or removes the counter file, whatever it holds,
\* and none of them calls the allocator.
C7_ReadersLeaveCounter ==
    [][stage' \in {"wiki", "mail"} => versionFile' = versionFile /\ history' = history]_vars

\* the Notifier has looked the version up with no counter file there, and goes on
C7_Witness ==
    /\ stage = "mail" /\ pc = "extract_test_status"
    /\ ~versionFile.exists /\ loc.version = 1

\* the Wiki Publisher and the Notifier have computed their paths
WikiPathsKnown ==
    /\ stage = "wiki" /\ pc \notin {"validate_env", "read_version"}
    /\ loc.why \notin {"missing_environment", "base_contains_rest_api"}
MailPathKnown == stage = "mail" /\ pc # "read_version"

\* the last run of the Renderer wrote both artifacts
Rendered == history # <<>> /\ Last(history).html # None /\ Last(history).pdf # None

\* C8: after a Renderer run that allocated version N and wrote the HTML and the
\* PDF of version N, and until the next allocation, the Wiki Publisher and the
\* Notifier read N from the counter file and compute the very paths the
\* Renderer wrote; these files exist, and the Notifier attaches that PDF.
C8_SameArtifacts ==
    Rendered =>
        /\ WikiPathsKnown =>
              /\ loc.version = Last(history).version
              /\ loc.pdf_path = Last(history).pdf /\ loc.html_path = Last(history).html
              /\ loc.pdf_path \in reportFiles /\ loc.html_path \in reportFiles
              /\ loc.why # "missing_report_files"
        /\ MailPathKnown =>
              /\ loc.version = Last(history).version
              /\ loc.pdf_report_path = Last(history).pdf
              /\ loc.pdf_report_path \in reportFiles
              /\ loc.why # "pdf_not_found"
        /\ MailComposed => loc.msg.attachment = Last(history).pdf

\* the Notifier has attached the PDF of version 10, allocated from a counter at 9
C8_Witness ==
    /\ Rendered /\ MailComposed
    /\ Last(history).version = 10
    /\ loc.msg.attachment = <<"report", "/", "test_result_report", "_v", "1", "0", ".", "pdf">>

\* the Wiki Publisher has its summary
WikiSummarized ==
    /\ stage = "wiki"
    /\ \/ pc \in {"create_page", "upload_pdf", "upload_html", "get_page_version",
                  "update_page", "save_url"}
       \/ pc = "exited" /\ net # <<>>

\* the number of test-case nodes of junit.xml that satisfy P
CountNodes(P(_)) ==
    Cardinality({i \in 1..Len(junitFile.testcases) : P(junitFile.testcases[i])})

\* C9: every test-case node is counted once: as failed when it has a failure
\* marker (also when it has an error marker too), else as error when it has an
\* error marker, else as skipped when it has a skipped marker, else as passed;
\* the four counts add up to the number of test-case nodes.
C9_ClassifiedByPriority ==
    WikiSummarized =>
        /\ loc.counts.failed = CountNodes(LAMBDA t : "failure" \in t)
        /\ loc.counts.errors = CountNodes(LAMBDA t : "failure" \notin t /\ "error" \in t)
        /\ loc.counts.skipped =
              CountNodes(LAMBDA t : "failure" \notin t /\ "error" \notin t /\ "skipped" \in t)
        /\ loc.counts.passed = CountNodes(LAMBDA t : t = {})
        /\ Total(loc.counts) = Len(junitFile.testcases)

\* a node with a failure and an error marker, counted as failed, beside a passed one
C9_Witness ==
    /\ WikiSummarized
    /\ junitFile.testcases = <<{"failure", "error"}, {}>>
    /\ loc.counts = [passed |-> 1, failed |-> 1, errors |-> 0, skipped |-> 0]

\* the Notifier has its status, from a pytest log that exists
MailSummarized ==
    /\ stage = "mail" /\ pytestLog.exists
    /\ pc \notin {"read_version", "extract_test_status"}
    /\ loc.why # "pdf_not_found"

\* status and pass rate as C10 gives them for the counts c
StatusOf(c) == IF c.failed = 0 /\ c.errors = 0 THEN "PASS" ELSE "FAIL"
RateIs(rate, c) ==
    /\ rate.den > 0
    /\ IF c.passed + c.failed + c.errors + c.skipped # 0
       THEN rate.num * (c.passed + c.failed + c.errors + c.skipped) = 100 * c.passed * rate.den
       ELSE rate.num = 0

\* C10: in the Wiki Publisher and in the Notifier, for all counts (passed,
\* failed, errors, skipped), the status is PASS if failed = 0 and errors = 0 and
\* FAIL otherwise, whatever the other two counts are, and the pass rate is
\* 100 * passed / (passed + failed + errors + skipped), or 0 when that sum is 0.
C10_StatusAndRate ==
    /\ WikiSummarized =>
          loc.status = StatusOf(loc.counts) /\ RateIs(loc.rate, loc.counts)
    /\ MailSummarized =>
          /\ loc.counts = [passed |-> Found(pytestLog.passed), failed |-> Found(pytestLog.failed),
                           errors |-> Found(pytestLog.errors), skipped |-> Found(pytestLog.skipped)]
          /\ loc.status = StatusOf(loc.counts) /\ RateIs(loc.rate, loc.counts)

\* no failure, one error: FAIL, with 2 of 4 passed
C10_Witness ==
    /\ MailSummarized
    /\ loc.counts = [passed |-> 2, failed |-> 0, errors |-> 1, skipped |-> 1]
    /\ loc.status = "FAIL" /\ loc.rate = [num |-> 200, den |-> 4]

\* the Notifier has its status and summary
MailExtracted ==
    /\ stage = "mail" /\ pc \notin {"read_version", "extract_test_status"}
    /\ loc.why # "pdf_not_found"

\* C11 as the specification states it: with the results file missing, the
\* extraction gives the four counts as zero, and the status and summary that
\* go on are the ones of those zero counts, in the Wiki Publisher (junit.xml)
\* and in the Notifier (pytest_output.txt).
C11_ZeroCountsWhenMissing ==
    /\ WikiSummarized /\ ~junitFile.exists =>
          loc.counts = ZeroCounts /\ loc.status = StatusOf(ZeroCounts)
    /\ MailExtracted /\ ~pytestLog.exists =>
          /\ loc.summary = "counts_and_pass_rate"
          /\ loc.counts = ZeroCounts
          /\ loc.status = StatusOf(ZeroCounts)

\* C11, amended: a missing results file aborts neither stage.  The Wiki
\* Publisher without junit.xml takes the four counts as zero and goes on with
\* the status (PASS) and pass rate (0) of those counts.  The Notifier without
\* pytest_output.txt computes no counts: it goes on with the status UNKNOWN
\* and the summary "No pytest_output.txt found.", and the mail carries these.
C11_NoDataNotFatal ==
    /\ [](/\ WikiSummarized /\ ~junitFile.exists =>
              /\ loc.counts = ZeroCounts
              /\ loc.status = "PASS" /\ loc.rate.num = 0
          /\ MailExtracted /\ ~pytestLog.exists =>
              loc.status = "UNKNOWN" /\ loc.summary = "no_pytest_output_found"
          /\ MailComposed /\ ~pytestLog.exists =>
              /\ loc.msg.summary.text = "no_pytest_output_found"
              /\ loc.msg.subject[1] = "(x)" /\ loc.msg.subject[3] = "UNKNOWN")
    /\ [][/\ stage = "wiki" /\ pc = "build_summary" /\ ~junitFile.exists => pc' = "create_page"
          /\ stage = "mail" /\ pc = "extract_test_status" /\ ~pytestLog.exists
                => pc' = "resolve_links"]_vars

\* the mail is built without a pytest log: its subject says UNKNOWN
C11_Witness ==
    /\ MailComposed /\ ~pytestLog.exists
    /\ loc.status = "UNKNOWN"
    /\ loc.msg.subject = <<"(x)", "Test Result", "UNKNOWN", "(v", "1", ")">>

\* a recipient text with no address in it: empty, or blanks and delimiters only
Blank(raw) == \A i \in 1..Len(raw) : raw[i] \in Whitespace \cup {";", ","}

\* the PDF of the version the counter file stands for is there
CurrentPdfExists == mail_pdf_path(mail_read_version(versionFile).version) \in reportFiles

\* C12: the Notifier makes a network call (the SMTP connection first of all)
\* only if the PDF of the current version exists and REPORT_TO holds an
\* address; without the PDF, or with REPORT_TO empty, blank or made of
\* delimiters only, the stage ends with non-zero exit and has made no call.
C12_NoConnectionWithoutPdfAndRecipient ==
    stage = "mail" =>
        /\ net # <<>> =>
              /\ net[1].call = "smtp_connect"
              /\ CurrentPdfExists /\ ~Blank(GetEnv(env.REPORT_TO))
        /\ ~CurrentPdfExists /\ pc # "read_version" =>
              /\ pc = "exited" /\ loc.exit = "nonzero" /\ loc.why = "pdf_not_found"
              /\ net = <<>>
        /\ CurrentPdfExists /\ Blank(GetEnv(env.REPORT_TO)) =>
              /\ pc \in {"read_version", "extract_test_status", "resolve_links",
                         "parse_recipients", "exited"}
              /\ pc = "exited" => loc.exit = "nonzero" /\ loc.why = "report_to_empty"
              /\ net = <<>>

\* REPORT_TO holds delimiters and a blank only: the stage is over, nothing was sent
C12_Witness ==
    /\ stage = "mail" /\ pc = "exited" /\ loc.exit = "nonzero" /\ loc.why = "report_to_empty"
    /\ env.REPORT_TO = <<";", ",", " ">> /\ CurrentPdfExists
    /\ net = <<>>

\* a reference file that gives no link: not there, or nothing but blanks in it
NoReference(file) == ~file.exists \/ strip(file.text) = <<>>

\* no reference to the wiki page, and none to the test execution, from any source
NoWikiLink == GetEnv(env.CONFLUENCE_PAGE_URL) = <<>> /\ NoReference(confUrlFile)
NoJiraLink ==
    /\ rstrip(GetEnv(env.JIRA_URL), {"/"}) = <<>> \/ NoReference(rtmKeyFile)
    /\ GetEnv(env.JIRA_EXECUTION_URL) = <<>>
    /\ NoReference(jiraUrlFile)

\* C13: reading the references never ends the Notifier, whatever reference
\* files are missing or empty; such a file counts as no link.  The mail always
\* has the wiki section and the issue-tracker section, each with the link when
\* there is a reference and with the not-available placeholder when there is none.
C13_SectionsAlwaysPresent ==
    /\ [](/\ MailResolved =>
              /\ NoWikiLink <=> loc.confluence_url = <<>>
              /\ NoJiraLink <=> loc.jira_url = <<>>
              /\ NoReference(confUrlFile) /\ NoReference(rtmKeyFile) /\ NoReference(jiraUrlFile)
                    => loc.why # "exception" \/ net # <<>>
          /\ MailComposed =>
              /\ loc.msg.confluence =
                    IF NoWikiLink THEN [placeholder |-> "not available"]
                    ELSE [link |-> loc.confluence_url]
              /\ loc.msg.jira =
                    IF NoJiraLink THEN [placeholder |-> "not available"]
                    ELSE [link |-> loc.jira_url]
              /\ ~NoWikiLink /\ GetEnv(env.CONFLUENCE_PAGE_URL) = <<>>
                    => loc.msg.confluence = [link |-> strip(confUrlFile.text)])
    /\ [][stage = "mail" /\ pc = "resolve_links" => pc' = "parse_recipients"]_vars

\* the wiki reference file holds a line end only, no other reference is there,
\* and the mail is built with both placeholders
C13_Witness ==
    /\ MailComposed
    /\ confUrlFile = File(<<"\n">>) /\ env.CONFLUENCE_PAGE_URL = None
    /\ ~rtmKeyFile.exists /\ ~jiraUrlFile.exists
    /\ loc.msg.confluence = [placeholder |-> "not available"]
    /\ loc.msg.jira = [placeholder |-> "not available"]

\* the calls of one kind the Notifier has made
MailCalls(call) == SelectSeq(net, LAMBDA n : n.call = call)

\* C14: STARTTLS is tried only with port 587; login is tried only with a user
\* name and a password both set and AUTH advertised by the server; once the
\* connection stands, nothing before the sending ends the stage: without
\* credentials, without AUTH advertised, after an error of STARTTLS or of
\* login, the message is handed to the server all the same.
C14_TransportFallbacks ==
    stage = "mail" =>
        /\ Len(MailCalls("starttls")) <= 1 /\ Len(MailCalls("login")) <= 1
        /\ MailCalls("starttls") # <<>> => env.SMTP_PORT = 587
        /\ MailCalls("login") # <<>> =>
              /\ ~Falsy(env.SMTP_USER) /\ ~Falsy(env.SMTP_PASS)
              /\ loc.esmtp_auth = "advertised"
        /\ pc = "exited" /\ net # <<>> /\ net[1].outcome = "ok" =>
              /\ Last(net).call = "send_message"
              /\ Last(net).outcome = "ok" <=> loc.exit = "zero"
        /\ pc = "exited" /\ loc.why = "exception" =>
              Last(net).call \in {"smtp_connect", "send_message"}
        /\ MailCalls("send_message") # <<>> =>
              /\ MailCalls("starttls") = <<>> <=> env.SMTP_PORT # 587
              /\ MailCalls("login") = <<>> <=>
                    Falsy(env.SMTP_USER) \/ Falsy(env.SMTP_PASS) \/ loc.esmtp_auth # "advertised"

\* STARTTLS and login both raised, and the message went out
C14_Witness ==
    /\ stage = "mail" /\ pc = "exited" /\ loc.exit = "zero"
    /\ net = <<[call |-> "smtp_connect", outcome |-> "ok"],
               [call |-> "starttls", outcome |-> "exception"],
               [call |-> "login", outcome |-> "exception"],
               [call |-> "send_message", outcome |-> "ok"]>>

\* the requests the login application has served
Exchanges == IF stage = "app" THEN net ELSE <<>>

ShowsInvalid(response) ==
    /\ response.status = 200 /\ response.page = "login.html"
    /\ \E k \in 1..Len(response.flashes) : response.flashes[k] = "Invalid username or password"

\* a POST /login that was accepted
Accepted(x) == x.call = "POST /login" /\ x.response = redirect("dashboard")

\* what C15 says of the other requests: the session changes with logins and
\* logouts only; the dashboard is served only with a user in the session;
\* from a logout to the next accepted login the dashboard redirects to login
SessionDiscipline ==
    \A i \in 1..Len(Exchanges) :
        LET x == Exchanges[i]
        IN  /\ x.before = (IF i = 1 THEN NoSession ELSE Exchanges[i - 1].after)
            /\ x.call \notin {"POST /login", "GET /logout"} => x.after.user = x.before.user
            /\ x.call = "GET /logout" => x.after.user = None /\ x.response = redirect("login")
            /\ x.call = "GET /dashboard" =>
                  /\ x.response.status = 200 => x.response.page = "dashboard.html"
                  /\ x.response.page = "dashboard.html" => ~Falsy(x.before.user)
                  /\ x.response.status # 200 => x.response = redirect("login")
                  /\ (\E j \in 1..(i - 1) :
                         /\ Exchanges[j].call = "GET /logout"
                         /\ \A k \in (j + 1)..(i - 1) : ~Accepted(Exchanges[k]))
                        => x.response = redirect("login")
                  /\ (\A k \in 1..(i - 1) : ~Accepted(Exchanges[k]))
                        => x.response = redirect("login")

\* C15 as stated: a POST /login with the configured user name and its
\* password sets the session user and leads to the dashboard; a POST /login
\* with any other credentials shows "Invalid username or password" and leaves
\* the session user as it was; the dashboard is served only with a user in
\* the session, and after /logout it redirects to login until the next
\* accepted login.
C15_ExactCredentials ==
    /\ SessionDiscipline
    /\ \A i \in 1..Len(Exchanges) :
          LET x == Exchanges[i]
          IN  x.call = "POST /login" =>
                  IF x.username = DEFAULT_USERNAME /\ x.password = DEFAULT_PASSWORD
                  THEN x.after.user = x.username /\ x.response = redirect("dashboard")
                  ELSE ShowsInvalid(x.response) /\ x.after.user = x.before.user

\* C15, amended: the application compares the user name and the password
\* with the blanks around them removed.  A POST /login whose user name, so
\* trimmed, is the configured one and whose password, so trimmed, is its
\* password sets the session user (to the trimmed name) and redirects to the
\* dashboard; any other POST /login shows "Invalid username or password" and
\* leaves the session user as it was; the dashboard is served only with a
\* user in the session, and after /logout it redirects to login until the
\* next accepted login.
C15_TrimmedCredentials ==
    /\ SessionDiscipline
    /\ \A i \in 1..Len(Exchanges) :
          LET x == Exchanges[i]
          IN  x.call = "POST /login" =>
                  IF strip(x.username) = DEFAULT_USERNAME /\ strip(x.password) = DEFAULT_PASSWORD
                  THEN x.after.user = strip(x.username) /\ x.response = redirect("dashboard")
                  ELSE ShowsInvalid(x.response) /\ x.after.user = x.before.user

\* a login with padded credentials, a refused login that leaves alice in the
\* session, and the dashboard served to her
C15_Witness ==
    /\ stage = "app" /\ Len(net) = 3
    /\ net[1].call = "POST /login" /\ net[1].username = <<"alice", " ">>
    /\ net[1].after.user = <<"alice">>
    /\ net[2].call = "POST /login" /\ net[2].password = <<"wrongpass">>
    /\ ShowsInvalid(net[2].response) /\ net[2].after.user = <<"alice">>
    /\ net[3].call = "GET /dashboard" /\ net[3].response.page = "dashboard.html"

\* the remote steps of the Wiki Publisher, in the order of main()
WikiSteps == <<"create_page", "upload_pdf", "upload_html", "get_page_version", "update_page">>

WikiStepOf(n) == IF n.call = "upload" THEN "upload_" \o n.file ELSE n.call

\* C16: the Wiki Publisher requests the page once, then posts the PDF, then
\* the HTML, then fetches the revision, then updates the page with revision
\* + 1, then writes the page URL to confluence_url.txt.  A step is taken only
\* after the one before it succeeded.  A failure at any step ends the stage
\* with non-zero exit, with no later step and without the reference file
\* being written; missing configuration and missing report files end it
\* before any remote call.
C16_WikiStepOrder ==
    /\ [](stage = "wiki" =>
            /\ Len(net) <= Len(WikiSteps)
            /\ \A i \in 1..Len(net) : WikiStepOf(net[i]) = WikiSteps[i]
            /\ \A i \in 1..(Len(net) - 1) : net[i].outcome = "ok"
            /\ Len(net) = 5 => net[5].number = loc.current_version + 1
            /\ net # <<>> /\ Last(net).outcome # "ok" => pc = "exited" /\ loc.exit = "nonzero"
            /\ pc = "exited" =>
                  /\ loc.exit = "zero" <=>
                        Len(net) = 5 /\ \A i \in 1..5 : net[i].outcome = "ok"
                  /\ loc.exit = "zero" =>
                        confUrlFile = File(CONFLUENCE_BASE \o <<"/spaces/">> \o env.CONFLUENCE_SPACE
                                             \o <<"/pages/">> \o loc.page_id)
            /\ loc.why \in {"missing_environment", "base_contains_rest_api",
                             "missing_report_files"} =>
                  pc = "exited" /\ loc.exit = "nonzero" /\ net = <<>>
            /\ pc \notin {"validate_env", "exited"} => validate_env = ""
            /\ pc \notin {"validate_env", "read_version", "exited"} =>
                  loc.pdf_path \in reportFiles /\ loc.html_path \in reportFiles)
    /\ [][stage' = "wiki" /\ confUrlFile' # confUrlFile =>
             /\ pc = "save_url" /\ Len(net) = 5 /\ \A i \in 1..5 : net[i].outcome = "ok"
             /\ loc'.exit = "zero"]_vars

\* the five remote steps went through, the page was updated to revision 3,
\* and the reference file holds the page URL
C16_Witness ==
    /\ stage = "wiki" /\ pc = "exited" /\ loc.exit = "zero"
    /\ Len(net) = 5 /\ net[5].number = 3
    /\ confUrlFile = File(<<"https://wiki", "/spaces/", "QA", "/pages/", "4711">>)

\* the answers of the status endpoint so far, and the folder requests
Polls == SelectSeq(net, LAMBDA n : n.call = "import_status")
FolderCalls == SelectSeq(net, LAMBDA n : n.call = "folder")

\* the polling is over: the last answer came through and was not IMPORTING
PollingOver == Polls # <<>> /\ ~Last(Polls).raised /\ Last(Polls).status # "IMPORTING"

\* C17: the status endpoint is asked only after an import answered with 200
\* or 202, again and again while it says IMPORTING, and no more after the
\* first other status.  The key file is written exactly when that last answer
\* carries a non-empty testExecutionKey, and then with that key.  Without
\* the key the stage ends normally (exit 0), the key file is as it was and no
\* folder request is made.
C17_PollThenKey ==
    /\ [](stage = "rtm_upload" =>
            /\ Polls # <<>> =>
                  /\ net[1].call = "import" /\ ~net[1].response.raised
                  /\ net[1].response.status \in {200, 202}
            /\ \A i \in 1..(Len(Polls) - 1) : ~Polls[i].raised /\ Polls[i].status = "IMPORTING"
            /\ Polls # <<>> /\ ~Last(Polls).raised /\ Last(Polls).status = "IMPORTING"
                  => pc = "poll"
            /\ PollingOver =>
                  /\ pc # "poll"
                  /\ loc.te_key = loc.d.testExecutionKey
                  /\ Falsy(loc.te_key) =>
                        /\ pc = "exited" /\ loc.exit = "zero"
                        /\ loc.why = "no_test_execution_key"
                        /\ FolderCalls = <<>>
                  /\ ~Falsy(loc.te_key) => rtmKeyFile = File(loc.te_key)
            /\ FolderCalls # <<>> =>
                  PollingOver /\ ~Falsy(loc.te_key) /\ ~Falsy(env.folder_id))
    /\ [][stage' = "rtm_upload" /\ rtmKeyFile' # rtmKeyFile =>
             /\ pc = "poll" /\ PollingOver'
             /\ ~Falsy(loc'.te_key) /\ rtmKeyFile' = File(loc'.te_key)]_vars

\* two IMPORTING answers, then FINISHED without a key: the stage ended
\* normally, the key file of an earlier run is still there, and the folder
\* that was asked for got no request
C17_Witness ==
    /\ stage = "rtm_upload" /\ pc = "exited" /\ loc.exit = "zero"
    /\ Len(Polls) = 3 /\ Polls[1].status = "IMPORTING" /\ Polls[2].status = "IMPORTING"
    /\ Polls[3].status = "FINISHED" /\ loc.d.testExecutionKey = <<>>
    /\ rtmKeyFile = File(<<"RT-1">>) /\ env.folder_id = <<"12">> /\ FolderCalls = <<>>

\* the Renderer has its version
RenderAllocated ==
    /\ stage = "render"
    /\ pc \in {"write_html", "write_pdf"} \/ (pc = "exited" /\ loc.why = "completed")

\* C18: a run of the Renderer with its source HTML calls get_next_version
\* once and names the HTML and the PDF with the version that call returned; a
\* run without the source HTML ends with non-zero exit before the call: the
\* counter file is as it was and no artifact is written.
C18_OneAllocationPerRun ==
    /\ [](/\ RenderAllocated =>
              /\ history # <<>> /\ loc.version = Last(history).version
              /\ versionFile = File(str(loc.version))
              /\ pc # "write_html" =>
                    /\ loc.html_out = render_path(loc.version, "html")
                    /\ loc.html_out \in reportFiles
              /\ pc = "exited" =>
                    /\ loc.exit = "zero"
                    /\ loc.pdf_file = render_path(loc.version, "pdf")
                    /\ loc.pdf_file \in reportFiles
          /\ stage = "render" /\ loc.why = "input_report_missing" =>
              /\ pc = "exited" /\ loc.exit = "nonzero"
              /\ loc.version = None /\ loc.html_out = None /\ loc.pdf_file = None)
    /\ [][/\ stage' = "render" /\ pc' = "allocate" => stage = "render" /\ pc = "check_input"
          /\ stage' = "render" /\ pc' = "check_input" => pc \in {"idle", "exited"}
          /\ stage' = "render" /\ (versionFile' # versionFile \/ Len(history') # Len(history)) =>
                /\ pc = "allocate" /\ pc' = "write_html"
                /\ Len(history') = Len(history) + 1
                /\ versionFile' = Last(history').left
                /\ loc'.version = Persisted(versionFile) + 1
          /\ stage' = "render" /\ reportFiles' # reportFiles =>
                /\ pc \in {"write_html", "write_pdf"}
                /\ reportFiles' \subseteq
                      reportFiles \cup {render_path(loc.version, "html"),
                                        render_path(loc.version, "pdf")}
          /\ stage = "render" /\ pc = "check_input" /\ pc' = "exited" =>
                /\ loc'.why = "input_report_missing"
                /\ versionFile' = versionFile /\ reportFiles' = reportFiles
                /\ history' = history]_vars

\* the second run of the Renderer: version 2 again for both artifacts,
\* after a first run that had made version 1
C18_Witness ==
    /\ stage = "render" /\ pc = "exited" /\ loc.exit = "zero"
    /\ Len(history) = 2 /\ loc.version = 2
    /\ loc.html_out = <<"report", "/", "test_result_report", "_v", "2", ".", "html">>
    /\ loc.pdf_file = <<"report", "/", "test_result_report", "_v", "2", ".", "pdf">>
    /\ {loc.html_out, loc.pdf_file} \subseteq reportFiles

\* the file attach_file was called for is not there
AttachMissing(f) ==
    /\ pc = "exited" /\ loc.exit = "nonzero"
    /\ loc.why = "file_not_found" /\ loc.file = f

\* C19: the Attachment Publisher writes the issue key it was given to
\* rtm_execution_key.txt, in place of what the file held, before it attempts
\* any upload, so the file holds that key also when the run aborts later; the
\* PDF is attached before the HTML, and when the PDF is missing or has failed
\* its 3 attempts no upload of the HTML is attempted.
C19_KeyFirstThenPdfThenHtml ==
    stage = "rtm_attach" =>
        /\ pc \in {"attach_file", "attempt"} \/ net # <<>> \/ AttachFatal("pdf")
              \/ AttachMissing("pdf") \/ AttachMissing("html")
              \/ (pc = "exited" /\ loc.exit = "zero")
              => rtmKeyFile = File(env.issue_key)
        /\ \A i, j \in 1..Len(net) :
              net[i].file = "html" /\ net[j].file = "pdf" => j < i
        /\ AttachLog("html") # <<>> \/ loc.file = "html" =>
              /\ AttachLog("pdf") # <<>> /\ Attached(Last(AttachLog("pdf")))
              /\ "pdf" \in loc.attached
        /\ AttachFatal("pdf") \/ AttachMissing("pdf") =>
              AttachLog("html") = <<>> /\ "html" \notin loc.attached

\* the PDF failed three times: the run is over, nothing was tried for the
\* HTML, and the key file holds the key of this run
C19_Witness ==
    /\ stage = "rtm_attach" /\ AttachFatal("pdf")
    /\ Len(AttachLog("pdf")) = 3 /\ AttachLog("html") = <<>>
    /\ rtmKeyFile = File(<<"RT-105">>)

====
